---------------------------- MODULE Spec2Model ----------------------------
(***************************************************************************)
(* A model of the Raycasting_diorama ray tracer (src/src/main.rs,          *)
(* src/src/material.rs, src/src/texture.rs).                               *)
(*                                                                         *)
(* Numbers.  Positions and distances are integers in units of ORIGIN_BIAS  *)
(* (1e-4 world units).  Directions, normals and dimensionless scalars      *)
(* (coefficients, cosines, eta, light intensity) are fixed-point integers  *)
(* scaled by FP, so FP stands for 1.0.  Shadow intensities are exact       *)
(* fractions [n, d].  Colours are triples of channels 0..255.              *)
(***************************************************************************)
EXTENDS Integers, Sequences, FiniteSets, TLC

VARIABLES
    pc,            \* control position: of main, or of the function under test
    args,          \* arguments of the function under test
    ret,           \* its result (NoValue before the call returns)
    loading,       \* main: index of the texture being loaded
    loaded,        \* main: the textures loaded so far
    stderr,        \* main: the messages written to standard error
    objects,       \* main: the scene's object list
    camera,        \* main: the camera
    light,         \* main: the SceneLight
    sky_color,     \* main: the sky colour of the frame
    frame,         \* main: frames presented, counted up to MaxFrames
    key_passes,    \* main: passes over the key handlers in this frame
    light_updates, \* main: calls of SceneLight::update in this frame
    frame_color,   \* render: colour cast_ray returns for each pixel index
    pixel_buffer,  \* render: the intermediate buffer
    pending,       \* render: pixel indices whose worker has not run yet
    copy_index,    \* render: index of the serial copy loop
    framebuffer,   \* the Framebuffer: current colour and pixel grid
    sink,          \* the calls the Framebuffer received in this render call
    presented      \* the buffer last handed to the window

harnessVars == <<args, ret>>
renderVars == <<frame_color, pixel_buffer, pending, copy_index, framebuffer, sink>>
mainVars ==
    <<loading, loaded, stderr, objects, camera, light, sky_color, frame,
      key_passes, light_updates, presented>>
vars == <<pc, harnessVars, mainVars, renderVars>>

NoValue == [none |-> TRUE]

(***************************************************************************)
(* Arithmetic helpers                                                      *)
(***************************************************************************)
FP == 10 * 10

Abs(x) == IF x < 0 THEN -x ELSE x
Min(a, b) == IF a < b THEN a ELSE b
Max(a, b) == IF a > b THEN a ELSE b
Clamp(x, lo, hi) == Min(Max(x, lo), hi)

\* f32::sqrt on a non-negative integer below (SqrtBase * (SqrtBase + 1))^2,
\* rounded down: first the multiple of SqrtBase below the root, then the root
SqrtBase == 2 * FP
ISqrt(n) ==
    LET h == CHOOSE k \in 0..SqrtBase :
                 /\ (k * SqrtBase) * (k * SqrtBase) <= n
                 /\ n < ((k + 1) * SqrtBase) * ((k + 1) * SqrtBase)
    IN  CHOOSE r \in (h * SqrtBase)..(h * SqrtBase + SqrtBase - 1) :
            r * r <= n /\ n < (r + 1) * (r + 1)

\* sqrt of a fixed-point scalar, as a fixed-point scalar
FSqrt(k) == ISqrt(k * FP)
\* product and quotient of fixed-point scalars
FMul(a, b) == (a * b) \div FP
FDiv(a, b) == (a * FP) \div b

(***************************************************************************)
(* Vec3 (nalgebra_glm): triples of integers                                *)
(***************************************************************************)
Vec3(x, y, z) == <<x, y, z>>
VAdd(a, b) == <<a[1] + b[1], a[2] + b[2], a[3] + b[3]>>
VSub(a, b) == <<a[1] - b[1], a[2] - b[2], a[3] - b[3]>>
VNeg(a) == <<-a[1], -a[2], -a[3]>>
\* vector times fixed-point scalar
VScale(a, s) == <<(a[1] * s) \div FP, (a[2] * s) \div FP, (a[3] * s) \div FP>>
\* dot product of two fixed-point vectors, a fixed-point scalar
Dot(a, b) == (a[1] * b[1] + a[2] * b[2] + a[3] * b[3]) \div FP
\* Euclidean length of a position vector, in position units
Magnitude(a) == ISqrt(a[1] * a[1] + a[2] * a[2] + a[3] * a[3])
\* unit vector (fixed-point) of a non-zero vector
Normalize(a) ==
    LET m == Magnitude(a)
    IN  <<(a[1] * FP) \div m, (a[2] * FP) \div m, (a[3] * FP) \div m>>

(***************************************************************************)
(* reflect, refract (main.rs)                                              *)
(***************************************************************************)
\* incident - 2.0 * incident.dot(normal) * normal
reflect(incident, normal) ==
    VSub(incident, VScale(normal, 2 * Dot(incident, normal)))

\* the locals of refract before its final if: cosi, n_cosi, eta, n_normal, k
refract_locals(incident, normal, eta_t) ==
    LET cosi == -Min(Max(Dot(incident, normal), -FP), FP)
        entering == cosi < 0
        n_cosi == IF entering THEN -cosi ELSE cosi
        eta == IF entering THEN FDiv(FP, eta_t) ELSE eta_t
        n_normal == IF entering THEN VNeg(normal) ELSE normal
        k == FP - FMul(FMul(eta, eta), FP - FMul(n_cosi, n_cosi))
    IN  [cosi |-> cosi, n_cosi |-> n_cosi, eta |-> eta,
         n_normal |-> n_normal, k |-> k]

refract(incident, normal, eta_t) ==
    LET l == refract_locals(incident, normal, eta_t)
    IN  IF l.k < 0
        THEN reflect(incident, l.n_normal)
        ELSE VAdd(VScale(incident, l.eta),
                  VScale(l.n_normal, FMul(l.eta, l.n_cosi) - FSqrt(l.k)))

(***************************************************************************)
(* Color (color.rs): three channels 0..255, arithmetic clamped per channel *)
(***************************************************************************)
Channel(x) == IF x < 0 THEN 0 ELSE IF x > 255 THEN 255 ELSE x
ColorNew(r, g, b) == <<Channel(r), Channel(g), Channel(b)>>
ColorBlack == ColorNew(0, 0, 0)
ColorWhite == ColorNew(255, 255, 255)
ColorAdd(a, b) == <<Channel(a[1] + b[1]), Channel(a[2] + b[2]), Channel(a[3] + b[3])>>
\* Color * f32, the scalar in fixed point
ColorMulF(c, s) ==
    <<Channel((c[1] * s) \div FP), Channel((c[2] * s) \div FP),
      Channel((c[3] * s) \div FP)>>
to_hex(c) == c[1] * 65536 + c[2] * 256 + c[3]

(***************************************************************************)
(* Texture (texture.rs) and Material (material.rs)                         *)
(***************************************************************************)
NoTexture == [width |-> 0, height |-> 0, image |-> <<>>]

\* Texture::get_color, u and v in fixed point
get_color(texture, u, v) ==
    LET x0 == ((u % FP) * texture.width) \div FP
        y0 == ((FP - (v % FP)) * texture.height) \div FP
        x == Clamp(x0, 0, texture.width - 1)
        y == Clamp(y0, 0, texture.height - 1)
    IN  texture.image[y + 1][x + 1]

MaterialNew(color, shininess, properties, refractive_index) ==
    [color |-> color, texture |-> NoTexture, shininess |-> shininess,
     properties |-> properties, refractive_index |-> refractive_index,
     emission |-> ColorBlack]

MaterialBlack ==
    [color |-> ColorNew(0, 0, 0), texture |-> NoTexture, shininess |-> 0,
     properties |-> <<0, 0, 0, 0>>, refractive_index |-> FP,
     emission |-> ColorBlack]

MaterialWithTexture(texture, shininess, properties, refractive_index) ==
    [color |-> ColorWhite, texture |-> texture, shininess |-> shininess,
     properties |-> properties, refractive_index |-> refractive_index,
     emission |-> ColorBlack]

HasTexture(material) == material.texture # NoTexture

(***************************************************************************)
(* Intersect and Cube::ray_intersect (ray_intersect.rs, cube.rs are not in *)
(* the source tree: the slab method of the specification, section 4.1)     *)
(***************************************************************************)
IntersectEmpty ==
    [is_intersecting |-> FALSE, distance |-> 0, point |-> Vec3(0, 0, 0),
     normal |-> Vec3(0, 0, 0), material |-> MaterialBlack]

\* larger than every ray parameter of the model
FarT == FP * FP * FP * FP

Axis(a) == [i \in 1..3 |-> IF i = a THEN FP ELSE 0]

\* one axis of the slab test: the parameters at which the ray enters and
\* leaves the slab, and the outward normals of the two planes
SlabAxis(cube, origin, direction, a) ==
    LET o == origin[a]
        d == direction[a]
        lo == cube.min[a]
        hi == cube.max[a]
        t1 == ((lo - o) * FP) \div d
        t2 == ((hi - o) * FP) \div d
    IN  IF d = 0
        THEN [miss |-> o < lo \/ o > hi, near |-> -FarT, far |-> FarT,
              near_normal |-> Vec3(0, 0, 0), far_normal |-> Vec3(0, 0, 0)]
        ELSE IF t1 <= t2
        THEN [miss |-> FALSE, near |-> t1, far |-> t2,
              near_normal |-> VNeg(Axis(a)), far_normal |-> Axis(a)]
        ELSE [miss |-> FALSE, near |-> t2, far |-> t1,
              near_normal |-> Axis(a), far_normal |-> VNeg(Axis(a))]

ray_intersect(cube, origin, direction) ==
    LET s == [a \in 1..3 |-> SlabAxis(cube, origin, direction, a)]
        an == CHOOSE a \in 1..3 : \A b \in 1..3 : s[b].near <= s[a].near
        af == CHOOSE a \in 1..3 : \A b \in 1..3 : s[b].far >= s[a].far
        tmin == s[an].near
        tmax == s[af].far
        hit(t, n) ==
            [is_intersecting |-> TRUE, distance |-> t,
             point |-> VAdd(origin, VScale(direction, t)),
             normal |-> n, material |-> cube.material]
    IN  IF (\E a \in 1..3 : s[a].miss) \/ tmin > tmax THEN IntersectEmpty
        ELSE IF tmin > 0 THEN hit(tmin, s[an].near_normal)
        ELSE IF tmax > 0 THEN hit(tmax, s[af].far_normal)
        ELSE IntersectEmpty

(***************************************************************************)
(* offset_origin, cast_shadow (main.rs)                                    *)
(***************************************************************************)
ORIGIN_BIAS == 1

offset_origin(intersect, direction) ==
    LET offset == VScale(intersect.normal, ORIGIN_BIAS)
    IN  IF Dot(direction, intersect.normal) < 0
        THEN VSub(intersect.point, offset)
        ELSE VAdd(intersect.point, offset)

\* exact fractions n / d with d > 0
Frac(n, d) == [n |-> n, d |-> d]
FracLess(a, b) == a.n * b.d < b.n * a.d
FracEq(a, b) == a.n * b.d = b.n * a.d

\* shadow_value without the square: 1.0 - distance_ratio.min(1.0)
shadow_value_linear(distance, light_distance) ==
    LET r == Frac(distance, light_distance)
        capped == IF FracLess(Frac(1, 1), r) THEN Frac(1, 1) ELSE r
    IN  Frac(capped.d - capped.n, capped.d)

\* lines 132-133: 1.0 - distance_ratio.powf(2.0).min(1.0)
shadow_value(distance, light_distance) ==
    LET sq == Frac(distance * distance, light_distance * light_distance)
        capped == IF FracLess(Frac(1, 1), sq) THEN Frac(1, 1) ELSE sq
    IN  Frac(capped.d - capped.n, capped.d)

\* the loop of cast_shadow over the shadow ray's intersections, from object i
RECURSIVE shadow_loop(_, _, _)
shadow_loop(shadow_intersects, light_distance, i) ==
    IF i > Len(shadow_intersects) THEN Frac(0, 1)
    ELSE IF shadow_intersects[i].is_intersecting
            /\ shadow_intersects[i].distance < light_distance
    THEN shadow_value(shadow_intersects[i].distance, light_distance)
    ELSE shadow_loop(shadow_intersects, light_distance, i + 1)

cast_shadow(intersect, lgt, objs) ==
    LET to_light == VSub(lgt.position, intersect.point)
        light_dir == Normalize(to_light)
        light_distance == Magnitude(to_light)
        shadow_ray_origin == offset_origin(intersect, light_dir)
        shadow_intersects ==
            [i \in 1..Len(objs) |->
                ray_intersect(objs[i], shadow_ray_origin, light_dir)]
    IN  shadow_loop(shadow_intersects, light_distance, 1)

(***************************************************************************)
(* cast_ray (main.rs)                                                      *)
(***************************************************************************)
\* the recursion limit of cast_ray: "if depth > 3"
RecursionLimit == 3

\* position units in 1.0 world units (ORIGIN_BIAS is 1e-4)
PosOne == FP * FP

\* the scan of cast_ray over the ray's intersections, from object i, with
\* the running zbuffer ([inf |-> TRUE] is f32::INFINITY) and selection
RECURSIVE scan_loop(_, _, _, _)
scan_loop(hits, i, zbuffer, selected) ==
    IF i > Len(hits) THEN selected
    ELSE IF hits[i].is_intersecting /\ (zbuffer.inf \/ hits[i].distance < zbuffer.v)
    THEN scan_loop(hits, i + 1, [inf |-> FALSE, v |-> hits[i].distance], i)
    ELSE scan_loop(hits, i + 1, zbuffer, selected)

\* nearest_hit without the zbuffer test: the last intersecting object wins
nearest_hit_last_found(hits) ==
    LET found == {i \in 1..Len(hits) : hits[i].is_intersecting}
    IN  IF found = {} THEN 0 ELSE CHOOSE i \in found : \A j \in found : j <= i

\* index of the object whose intersection cast_ray keeps, 0 for none
nearest_hit(hits) == scan_loop(hits, 1, [inf |-> TRUE, v |-> 0], 0)

\* calculate_uv: the fractional position on the face, in fixed point
calculate_uv(intersect) ==
    LET frac1(x) == ((Abs(x) % PosOne) * FP) \div PosOne
        normal == intersect.normal
        point == intersect.point
    IN  IF Abs(normal[2]) > (99 * FP) \div 100
        THEN <<frac1(point[1]), frac1(point[3])>>
        ELSE IF Abs(normal[1]) > (99 * FP) \div 100
        THEN <<frac1(point[3]), frac1(point[2])>>
        ELSE <<frac1(point[1]), frac1(point[2])>>

\* f32::powf with a whole exponent, by repeated squaring
RECURSIVE FPow(_, _)
FPow(b, n) ==
    IF n = 0 THEN FP
    ELSE IF b = 0 \/ b = FP THEN b
    ELSE IF n % 2 = 0 THEN FPow(FMul(b, b), n \div 2)
    ELSE FMul(b, FPow(FMul(b, b), n \div 2))

\* line 218: the diffuse term of a non-textured hit
diffuse_term(material_color, diffuse_coeff, diffuse_intensity, light_intensity) ==
    ColorMulF(ColorMulF(ColorMulF(ColorBlack, diffuse_coeff), diffuse_intensity),
              light_intensity)

\* the depth cast_ray passes to its recursive calls
next_depth(depth) == depth + 1

\* depth_exceeded with the limit off by one: "if depth > 4"
depth_exceeded_late(depth) == depth > RecursionLimit + 1

\* does cast_ray return at its first line
depth_exceeded(depth) == depth > RecursionLimit

NoCalls == [color |-> ColorBlack, calls |-> <<>>]

\* cast_ray returns [color, calls]: the colour, and the log of the
\* invocations it made, itself first
RECURSIVE cast_ray(_, _, _, _, _, _)

\* lines 151 and 166: "return sky_color", with the log entry of the invocation
sky_return(depth, scanned, hits, sky) ==
    [color |-> sky,
     calls |-> <<[depth |-> depth, scanned |-> scanned, hits |-> hits,
                  selected |-> 0, shaded |-> FALSE, shade |-> NoValue,
                  child_depths |-> <<>>, color |-> sky]>>]

\* lines 192-199: the texture sample at the hit, or the material's colour
material_color_at(intersect) ==
    LET uv == calculate_uv(intersect)
    IN  IF HasTexture(intersect.material)
        THEN get_color(intersect.material.texture, uv[1] % FP, uv[2] % FP)
        ELSE intersect.material.color

\* line 207: light.intensity * (1.0 - shadow_intensity)
effective_intensity(lgt, shadow_intensity) ==
    (lgt.intensity * (shadow_intensity.d - shadow_intensity.n)) \div shadow_intensity.d

\* lines 203-204 and 220-221: the specular term of a non-textured hit
specular_term(ray_origin, lgt, intersect, light_dir, light_intensity) ==
    LET view_dir == Normalize(VSub(ray_origin, intersect.point))
        reflect_dir == Normalize(reflect(VNeg(light_dir), intersect.normal))
        specular_intensity ==
            FPow(Max(Dot(view_dir, reflect_dir), 0), intersect.material.shininess)
    IN  ColorMulF(ColorMulF(ColorMulF(lgt.color, intersect.material.properties[2]),
                            specular_intensity), light_intensity)

\* lines 213-224: the base colour, emission added
base_color_of(material, material_color, diffuse, specular) ==
    IF HasTexture(material) THEN ColorAdd(material_color, material.emission)
    ELSE ColorAdd(ColorAdd(diffuse, specular), material.emission)

\* the values cast_ray computes to shade one hit, in the order in which it
\* computes them (lines 206-224)
shade_record(material, material_color, shadow_intensity, light_intensity, diffuse_intensity, diffuse, specular) ==
    [shadow_intensity |-> shadow_intensity,
     light_intensity |-> light_intensity,
     has_texture |-> HasTexture(material),
     material_color |-> material_color,
     diffuse_coeff |-> material.properties[1],
     diffuse_intensity |-> diffuse_intensity,
     diffuse |-> diffuse,
     specular |-> specular,
     base_color |-> base_color_of(material, material_color, diffuse, specular)]

\* lines 202-224: the shading of one hit
shade_hit(ray_origin, lgt, intersect, material_color, light_dir, shadow_intensity, light_intensity, diffuse_intensity) ==
    shade_record(intersect.material, material_color, shadow_intensity,
        light_intensity, diffuse_intensity,
        diffuse_term(material_color, intersect.material.properties[1],
                     diffuse_intensity, light_intensity),
        specular_term(ray_origin, lgt, intersect, light_dir, light_intensity))

\* lines 226-233: the reflected colour, by a recursive call if reflectivity > 0
reflect_color(objs, lgt, depth, sky, intersect, reflect_dir) ==
    IF intersect.material.properties[3] > 0
    THEN cast_ray(offset_origin(intersect, reflect_dir), reflect_dir,
                  objs, lgt, next_depth(depth), sky)
    ELSE NoCalls

\* lines 235-242: the refracted colour, by a recursive call if transparency > 0
refract_color(objs, lgt, depth, sky, intersect, refract_dir) ==
    IF intersect.material.properties[4] > 0
    THEN cast_ray(offset_origin(intersect, refract_dir), refract_dir,
                  objs, lgt, next_depth(depth), sky)
    ELSE NoCalls

\* lines 245-249: the colour cast_ray returns for a hit
combine_colors(material, base_color, reflected, refracted) ==
    IF HasTexture(material)
    THEN ColorAdd(ColorAdd(
            ColorMulF(base_color, FP - material.properties[3] - material.properties[4]),
            ColorMulF(reflected, material.properties[3])),
            ColorMulF(refracted, material.properties[4]))
    ELSE ColorAdd(ColorAdd(base_color,
            ColorMulF(reflected, material.properties[3])),
            ColorMulF(refracted, material.properties[4]))

\* the result of an invocation that shaded a hit, with its log entry
hit_return(depth, hits, selected, shade, reflected, refracted, color) ==
    [color |-> color,
     calls |-> <<[depth |-> depth, scanned |-> TRUE, hits |-> hits,
                  selected |-> selected, shaded |-> TRUE, shade |-> shade,
                  child_depths |->
                      (IF hits[selected].material.properties[3] > 0
                       THEN <<next_depth(depth)>> ELSE <<>>)
                      \o (IF hits[selected].material.properties[4] > 0
                          THEN <<next_depth(depth)>> ELSE <<>>),
                  color |-> color]>>
               \o reflected.calls \o refracted.calls]

\* lines 244-249, once the two recursive calls have returned
cast_ray_combine(depth, hits, selected, shade, reflected, refracted) ==
    hit_return(depth, hits, selected, shade, reflected, refracted,
        combine_colors(hits[selected].material, shade.base_color,
                       reflected.color, refracted.color))

\* lines 169-249, for the intersection the scan kept: the shading, then the
\* two recursive calls, are evaluated once each and in this order before the
\* colours are combined
cast_ray_hit(ray_origin, ray_direction, objs, lgt, depth, sky, hits, selected, intersect, light_dir, shadow_intensity) ==
    CHOOSE result \in
        {cast_ray_combine(depth, hits, selected, shade, reflected, refracted) :
         shade \in
             {shade_hit(ray_origin, lgt, intersect, material_color_at(intersect),
                        light_dir, shadow_intensity,
                        effective_intensity(lgt, shadow_intensity),
                        Min(Max(Dot(intersect.normal, light_dir), 0), FP))},
         reflected \in
             {reflect_color(objs, lgt, depth, sky, intersect,
                            Normalize(reflect(ray_direction, intersect.normal)))},
         refracted \in
             {refract_color(objs, lgt, depth, sky, intersect,
                            refract(ray_direction, intersect.normal,
                                    intersect.material.refractive_index))}} : TRUE

\* lines 165-206, once the scan has selected an object (0 for none)
cast_ray_selected(ray_origin, ray_direction, objs, lgt, depth, sky, hits, selected) ==
    IF selected = 0 THEN sky_return(depth, TRUE, hits, sky)
    ELSE cast_ray_hit(ray_origin, ray_direction, objs, lgt, depth, sky, hits,
                      selected, hits[selected],
                      Normalize(VSub(lgt.position, hits[selected].point)),
                      cast_shadow(hits[selected], lgt, objs))

\* lines 154-163, on the intersections of the ray with the objects
cast_ray_scan(ray_origin, ray_direction, objs, lgt, depth, sky, hits) ==
    cast_ray_selected(ray_origin, ray_direction, objs, lgt, depth, sky, hits,
                      nearest_hit(hits))

cast_ray(ray_origin, ray_direction, objs, lgt, depth, sky) ==
    IF depth_exceeded(depth) THEN sky_return(depth, FALSE, <<>>, sky)
    ELSE cast_ray_scan(ray_origin, ray_direction, objs, lgt, depth, sky,
             [i \in 1..Len(objs) |->
                 ray_intersect(objs[i], ray_origin, ray_direction)])

(***************************************************************************)
(* SceneLight (main.rs).  Time is in seconds, whole seconds in the model.  *)
(***************************************************************************)
SKYBOX_COLOR == ColorNew(68, 142, 228)
NIGHT_SKY_COLOR == ColorNew(10, 10, 50)
DAY_DURATION == 10

SceneLightNew(position, color, intensity) ==
    [position |-> position, color |-> color, intensity |-> intensity, time |-> 0]

\* sin and cos of 2 * PI * (time / DAY_DURATION) for whole seconds, in fixed
\* point with FP = 100
SinTable == <<0, 59, 95, 95, 59, 0, -59, -95, -95, -59>>
CosTable == <<100, 81, 31, -31, -81, -100, -81, -31, 31, 81>>
AngleSin(time) == SinTable[(time % DAY_DURATION) + 1]
AngleCos(time) == CosTable[(time % DAY_DURATION) + 1]

\* SceneLight::update
light_update(l, delta_time) ==
    LET time1 == l.time + delta_time
        time2 == IF time1 > DAY_DURATION THEN time1 - DAY_DURATION ELSE time1
        sin == AngleSin(time2)
        cos == AngleCos(time2)
        t == (sin + FP) \div 2
    IN  [position |-> Vec3((((3 * PosOne) \div 4) * cos) \div FP,
                           PosOne \div 4 + (2 * PosOne * sin) \div FP,
                           -2 * PosOne),
         color |-> ColorNew((255 * t) \div FP, (200 * t) \div FP, (100 * t) \div FP),
         intensity |-> FP + t,
         time |-> time2]

\* line 487: t = (light.position.y + 2.0) / 4.0, in fixed point
height_factor(l) == ((l.position[2] + 2 * PosOne) * FP) \div (4 * PosOne)

\* lines 487-492: the sky colour of the frame
frame_sky_color(l) ==
    LET t == height_factor(l)
        blend(day, night) == (day * t + night * (FP - t)) \div FP
    IN  ColorNew(blend(SKYBOX_COLOR[1], NIGHT_SKY_COLOR[1]),
                 blend(SKYBOX_COLOR[2], NIGHT_SKY_COLOR[2]),
                 blend(SKYBOX_COLOR[3], NIGHT_SKY_COLOR[3]))

(***************************************************************************)
(* Camera (camera.rs is not in the source tree).  The eye is kept in polar *)
(* form about the look-at target: its distance in units of ZOOM_SPEED and  *)
(* its yaw and pitch in units of rotation_speed; nan is set once the eye's *)
(* coordinates are NaN.                                                    *)
(***************************************************************************)
\* Camera::new(eye (0, 0, 5.5), center (0, 0, 0), up): 5.5 / ZOOM_SPEED
InitialDistance == 110
\* 2 * PI / rotation_speed
OrbitSteps == 100

CameraNew == [dist |-> InitialDistance, yaw |-> 0, pitch |-> 0, nan |-> FALSE]

\* W: forward = (center - eye).normalize(); eye += forward * ZOOM_SPEED
zoom_in(c) ==
    IF c.nan \/ c.dist = 0 THEN [c EXCEPT !.nan = TRUE]
    ELSE [c EXCEPT !.dist = c.dist - 1]

\* S: backward = (eye - center).normalize(); eye += backward * ZOOM_SPEED
zoom_out(c) ==
    IF c.nan \/ c.dist = 0 THEN [c EXCEPT !.nan = TRUE]
    ELSE [c EXCEPT !.dist = c.dist + 1]

\* Camera::orbit: a rotation about the target that keeps the distance
orbit(c, delta_yaw, delta_pitch) ==
    [c EXCEPT !.yaw = (c.yaw + delta_yaw) % OrbitSteps,
              !.pitch = (c.pitch + delta_pitch) % OrbitSteps]

\* lines 455-478: the key handlers after the Escape test, in program order
handle_keys(c, keys) ==
    LET c1 == IF "W" \in keys THEN zoom_in(c) ELSE c
        c2 == IF "S" \in keys THEN zoom_out(c1) ELSE c1
        c3 == IF "Left" \in keys THEN orbit(c2, 1, 0) ELSE c2
        c4 == IF "Right" \in keys THEN orbit(c3, -1, 0) ELSE c3
        c5 == IF "Up" \in keys THEN orbit(c4, 0, -1) ELSE c4
        c6 == IF "Down" \in keys THEN orbit(c5, 0, 1) ELSE c5
    IN  c6

(***************************************************************************)
(* Framebuffer (framebuffer.rs is not in the source tree) and render       *)
(***************************************************************************)
FbWidth == 2
FbHeight == 2
Pixels == 0..(FbWidth * FbHeight - 1)

FramebufferNew == [current_color |-> 0, buffer |-> [i \in Pixels |-> 0]]
set_current_color(fb, color) == [fb EXCEPT !.current_color = color]
point(fb, x, y) ==
    IF x < FbWidth /\ y < FbHeight
    THEN [fb EXCEPT !.buffer[y * FbWidth + x] = fb.current_color]
    ELSE fb

\* lines 271-272 and 297-298: the coordinates of a pixel index; the variant
\* takes the quotient for the column as well
pixel_x_swapped(index) == index \div FbWidth
pixel_x(index) == index % FbWidth
pixel_y(index) == index \div FbWidth

\* the slot of the intermediate buffer that the worker of a pixel index
\* writes: enumerate() pairs each index with its own element; the variant
\* makes every worker write the first slot
worker_slot_shared(index) == 0
worker_slot(index) == index

\* the colours cast_ray may return for the pixels of one frame
FrameColors ==
    {[i \in Pixels |-> ColorNew(68 + p * i, 142, 228 - i)] : p \in {1, 2}}

(***************************************************************************)
(* main                                                                    *)
(***************************************************************************)
MaxFrames == 2
MaxZoomOut == 2

TexturePaths ==
    <<"assets/obsidian.jpg", "assets/purple.jpg", "assets/grass.jpg",
      "assets/lava.jpg">>
\* what image::ImageError displays: the cause, without the path
LoadErrors == {"No such file or directory (os error 2)", "Format error decoding Jpeg"}

\* the materials of the 19 cubes of the scene, in list order
MainObjects ==
    <<"grass", "lava", "lava", "lava", "lava",
      "obsidian", "obsidian", "obsidian", "obsidian", "purple", "purple",
      "rock", "rock", "rock", "rock", "rock", "rock", "rock", "rock">>

\* the steps of the loop body in program order; the variant updates the
\* light after render
LoopBodyLightAfterRender == <<"keys", "sky", "render", "light", "present", "sleep">>
LoopBody == <<"keys", "light", "sky", "render", "present", "sleep">>
StepAfter(step) ==
    LET i == CHOOSE k \in 1..Len(LoopBody) : LoopBody[k] = step
    IN  IF i = Len(LoopBody) THEN "loop_head" ELSE LoopBody[i + 1]

\* what eprintln! writes when a texture fails to load: load_texture names
\* the path (line 327), the lava branch of main does not (line 374)
load_error_message(index, e) ==
    IF index < Len(TexturePaths)
    THEN <<"Error al cargar la textura ", TexturePaths[index], ": ", e>>
    ELSE <<"Error al cargar la textura de lava: ", e>>

HarnessIdle == args = NoValue /\ ret = NoValue

RenderIdle ==
    /\ frame_color = [i \in Pixels |-> ColorBlack]
    /\ pixel_buffer = [i \in Pixels |-> 0]
    /\ pending = {}
    /\ copy_index = 0
    /\ framebuffer = FramebufferNew
    /\ sink = <<>>

MainIdle ==
    /\ loading = 1
    /\ loaded = <<>>
    /\ stderr = <<>>
    /\ objects = <<>>
    /\ camera = CameraNew
    /\ light = SceneLightNew(Vec3((3 * PosOne) \div 4, PosOne \div 4, -2 * PosOne),
                             ColorNew(255, 200, 100), 2 * FP)
    /\ sky_color = SKYBOX_COLOR
    /\ frame = 0
    /\ key_passes = 0
    /\ light_updates = 0
    /\ presented = [i \in Pixels |-> 0]
    /\ RenderIdle

Init == pc = "load_texture" /\ HarnessIdle /\ MainIdle

LoadTextureOk ==
    /\ pc = "load_texture"
    /\ loaded' = Append(loaded, TexturePaths[loading])
    /\ IF loading = Len(TexturePaths)
       THEN pc' = "build_scene" /\ UNCHANGED loading
       ELSE pc' = "load_texture" /\ loading' = loading + 1
    /\ UNCHANGED <<harnessVars, renderVars, stderr, objects, camera, light,
                   sky_color, frame, key_passes, light_updates, presented>>

LoadTextureErr ==
    /\ pc = "load_texture"
    /\ \E e \in LoadErrors :
           stderr' = stderr \o <<load_error_message(loading, e),
                                 <<"panicked: No se pudo cargar la textura">>>>
    /\ pc' = "panicked"
    /\ UNCHANGED <<harnessVars, renderVars, loading, loaded, objects, camera,
                   light, sky_color, frame, key_passes, light_updates, presented>>

\* lines 339-446: materials, light, objects, camera
BuildScene ==
    /\ pc = "build_scene"
    /\ objects' = MainObjects
    /\ light' = SceneLightNew(Vec3((3 * PosOne) \div 4, PosOne \div 4, -2 * PosOne),
                              ColorNew(255, 200, 100), 2 * FP)
    /\ camera' = CameraNew
    /\ pc' = "loop_head"
    /\ UNCHANGED <<harnessVars, renderVars, loading, loaded, stderr, sky_color,
                   frame, key_passes, light_updates, presented>>

\* while window.is_open(): the window is open and another frame starts
LoopHeadOpen(frames) ==
    /\ pc = "loop_head"
    /\ frame < frames
    /\ pc' = LoopBody[1]
    /\ key_passes' = 0
    /\ light_updates' = 0
    /\ UNCHANGED <<harnessVars, renderVars, loading, loaded, stderr, objects,
                   camera, light, sky_color, frame, presented>>

\* the window was closed
LoopHeadClosed ==
    /\ pc = "loop_head"
    /\ pc' = "exit"
    /\ UNCHANGED <<harnessVars, renderVars, mainVars>>

\* lines 450-478
HandleKeys(keysets) ==
    /\ pc = "keys"
    /\ \E keys \in keysets :
        /\ ("S" \in keys /\ ~camera.nan) => camera.dist < InitialDistance + MaxZoomOut
        /\ IF "Escape" \in keys
           THEN pc' = "exit" /\ UNCHANGED <<camera, key_passes>>
           ELSE /\ camera' = handle_keys(camera, keys)
                /\ key_passes' = key_passes + 1
                /\ pc' = StepAfter("keys")
    /\ UNCHANGED <<harnessVars, renderVars, loading, loaded, stderr, objects,
                   light, sky_color, frame, light_updates, presented>>

\* lines 481-485
UpdateLight(deltas) ==
    /\ pc = "light"
    /\ \E delta_time \in deltas : light' = light_update(light, delta_time)
    /\ light_updates' = light_updates + 1
    /\ pc' = StepAfter("light")
    /\ UNCHANGED <<harnessVars, renderVars, loading, loaded, stderr, objects,
                   camera, sky_color, frame, key_passes, presented>>

\* lines 487-492
ComputeSky ==
    /\ pc = "sky"
    /\ sky_color' = frame_sky_color(light)
    /\ pc' = StepAfter("sky")
    /\ UNCHANGED <<harnessVars, renderVars, loading, loaded, stderr, objects,
                   camera, light, frame, key_passes, light_updates, presented>>

\* render, lines 255-269: the intermediate buffer is allocated and the
\* parallel iterator starts; colors are what cast_ray returns for the pixels
RenderBegin(colors) ==
    /\ pc = "render"
    /\ \E c \in colors : frame_color' = c
    /\ pixel_buffer' = [i \in Pixels |-> 0]
    /\ pending' = Pixels
    /\ copy_index' = 0
    /\ sink' = <<>>
    /\ pc' = "render_parallel"
    /\ UNCHANGED <<harnessVars, mainVars, framebuffer>>

\* lines 270-292: the closure of one pixel index
PixelWorker ==
    /\ pc = "render_parallel"
    /\ \E index \in pending :
        /\ pixel_buffer' =
               [pixel_buffer EXCEPT ![worker_slot(index)] = to_hex(frame_color[index])]
        /\ pending' = pending \ {index}
    /\ UNCHANGED <<pc, harnessVars, mainVars, frame_color, copy_index,
                   framebuffer, sink>>

\* for_each returns once every closure has run
RenderBarrier ==
    /\ pc = "render_parallel"
    /\ pending = {}
    /\ pc' = "copy_color"
    /\ UNCHANGED <<harnessVars, mainVars, renderVars>>

\* lines 296-299: the loop test and framebuffer.set_current_color(pixel)
CopySetColor ==
    /\ pc = "copy_color"
    /\ IF copy_index = FbWidth * FbHeight
       THEN pc' = StepAfter("render") /\ UNCHANGED <<framebuffer, sink>>
       ELSE /\ framebuffer' = set_current_color(framebuffer, pixel_buffer[copy_index])
            /\ sink' = Append(sink, [op |-> "set_current_color",
                                     color |-> pixel_buffer[copy_index],
                                     x |-> 0, y |-> 0])
            /\ pc' = "copy_point"
    /\ UNCHANGED <<harnessVars, mainVars, frame_color, pixel_buffer, pending,
                   copy_index>>

\* line 300: framebuffer.point(x, y)
CopyPoint ==
    /\ pc = "copy_point"
    /\ framebuffer' = point(framebuffer, pixel_x(copy_index), pixel_y(copy_index))
    /\ sink' = Append(sink, [op |-> "point", color |-> 0,
                             x |-> pixel_x(copy_index), y |-> pixel_y(copy_index)])
    /\ copy_index' = copy_index + 1
    /\ pc' = "copy_color"
    /\ UNCHANGED <<harnessVars, mainVars, frame_color, pixel_buffer, pending>>

\* lines 498-500: window.update_with_buffer
Present ==
    /\ pc = "present"
    /\ presented' = framebuffer.buffer
    /\ frame' = Min(frame + 1, MaxFrames)
    /\ pc' = StepAfter("present")
    /\ UNCHANGED <<harnessVars, renderVars, loading, loaded, stderr, objects,
                   camera, light, sky_color, key_passes, light_updates>>

\* line 502
Sleep ==
    /\ pc = "sleep"
    /\ pc' = StepAfter("sleep")
    /\ UNCHANGED <<harnessVars, renderVars, mainVars>>

\* the keys held down in one frame, and the seconds between two frames
MainKeySets ==
    {{}, {"Escape"}, {"W", "Left"}, {"S", "Down"}, {"Up", "Right"}, {"W", "S"}}
MainDeltas == {1, 5, DAY_DURATION + 1}

Next ==
    \/ LoadTextureOk
    \/ LoadTextureErr
    \/ BuildScene
    \/ LoopHeadOpen(MaxFrames)
    \/ LoopHeadClosed
    \/ HandleKeys(MainKeySets)
    \/ UpdateLight(MainDeltas)
    \/ ComputeSky
    \/ RenderBegin(FrameColors)
    \/ PixelWorker
    \/ RenderBarrier
    \/ CopySetColor
    \/ CopyPoint
    \/ Present
    \/ Sleep

Spec == Init /\ [][Next]_vars

\* main with the zoom keys alone and no limit on the number of frames
ZoomKeySets == {{"W"}, {"S"}}
ZoomDeltas == {1}
ZoomColors == {[i \in Pixels |-> ColorNew(68 + i, 142, 228 - i)]}

NextZoom ==
    \/ LoadTextureOk
    \/ LoadTextureErr
    \/ BuildScene
    \/ LoopHeadOpen(MaxFrames + 1)
    \/ LoopHeadClosed
    \/ HandleKeys(ZoomKeySets)
    \/ UpdateLight(ZoomDeltas)
    \/ ComputeSky
    \/ RenderBegin(ZoomColors)
    \/ PixelWorker
    \/ RenderBarrier
    \/ CopySetColor
    \/ CopyPoint
    \/ Present
    \/ Sleep

SpecZoom == Init /\ [][NextZoom]_vars

\* main with no key held down, MaxFrames frames, and frames that take up to
\* more than two days
DayKeySets == {{}}
DayDeltas == {0, 1, 2, DAY_DURATION + 1, 2 * DAY_DURATION + 1}
DayColors == {[i \in Pixels |-> ColorNew(68, 142 + i, 228)]}

NextDay ==
    \/ LoadTextureOk
    \/ LoadTextureErr
    \/ BuildScene
    \/ LoopHeadOpen(MaxFrames)
    \/ LoopHeadClosed
    \/ HandleKeys(DayKeySets)
    \/ UpdateLight(DayDeltas)
    \/ ComputeSky
    \/ RenderBegin(DayColors)
    \/ PixelWorker
    \/ RenderBarrier
    \/ CopySetColor
    \/ CopyPoint
    \/ Present
    \/ Sleep

SpecDay == Init /\ [][NextDay]_vars

(***************************************************************************)
(* Specification of refract: the arguments are drawn in Init               *)
(***************************************************************************)
\* unit directions: the six axes and the 3-4-5 directions of the xy plane
Signs == {-1, 1}
AxisDirs ==
    {Vec3(s * FP, 0, 0) : s \in Signs} \cup {Vec3(0, s * FP, 0) : s \in Signs}
        \cup {Vec3(0, 0, s * FP) : s \in Signs}
SlantDirs ==
    {Vec3(s * 6 * (FP \div 10), t * 8 * (FP \div 10), 0) : s \in Signs, t \in Signs}
        \cup {Vec3(s * 8 * (FP \div 10), t * 6 * (FP \div 10), 0) : s \in Signs, t \in Signs}
UnitDirs == AxisDirs \cup SlantDirs
\* refractive indices 0.5, 1.0, 1.5, 2.0
RefractiveIndices == {FP \div 2, FP, (3 * FP) \div 2, 2 * FP}

InitRefract ==
    /\ pc = "refract_call"
    /\ \E i \in UnitDirs, n \in AxisDirs, e \in RefractiveIndices :
           args = [incident |-> i, normal |-> n, eta_t |-> e]
    /\ ret = NoValue
    /\ MainIdle

CallRefract ==
    /\ pc = "refract_call"
    /\ ret' = [dir |-> refract(args.incident, args.normal, args.eta_t),
               locals |-> refract_locals(args.incident, args.normal, args.eta_t)]
    /\ pc' = "refract_done"
    /\ UNCHANGED <<args, mainVars, renderVars>>

SpecRefract == InitRefract /\ [][CallRefract]_vars

(***************************************************************************)
(* Specification of cast_shadow's loop: the shadow ray's intersections and *)
(* the distance to the light are drawn in Init                             *)
(***************************************************************************)
NumObjects == 2
MaxDistance == 4

ShadowHit(d) == [IntersectEmpty EXCEPT !.is_intersecting = TRUE, !.distance = d]
ShadowIntersects == {IntersectEmpty} \cup {ShadowHit(d) : d \in 1..MaxDistance}

InitShadow ==
    /\ pc = "shadow_call"
    /\ \E h \in [1..NumObjects -> ShadowIntersects], l \in 1..MaxDistance :
           args = [shadow_intersects |-> h, light_distance |-> l]
    /\ ret = NoValue
    /\ MainIdle

CallShadow ==
    /\ pc = "shadow_call"
    /\ ret' = shadow_loop(args.shadow_intersects, args.light_distance, 1)
    /\ pc' = "shadow_done"
    /\ UNCHANGED <<args, mainVars, renderVars>>

SpecShadow == InitShadow /\ [][CallShadow]_vars

(***************************************************************************)
(* Specification of cast_ray: a scene of boxes on the z axis, a light on   *)
(* the axis and a primary ray along it are drawn in Init                   *)
(***************************************************************************)
\* the rock of main (line 363), the mirror and the green box of the
\* specification's scenarios, a glass that reflects and refracts, and a
\* textured, emissive, transparent material like main's lava (line 379)
Rock == MaterialNew(ColorNew(169, 169, 169), 100,
                    <<(6 * FP) \div 10, (6 * FP) \div 10, (6 * FP) \div 10, 0>>, 0)
Mirror == MaterialNew(ColorWhite, 0, <<0, 0, FP, 0>>, FP)
Green == MaterialNew(ColorNew(0, 255, 0), 0, <<FP, 0, 0, 0>>, FP)
Glass == MaterialNew(ColorNew(200, 220, 255), 10,
                     <<FP \div 10, (3 * FP) \div 10, (2 * FP) \div 10, (7 * FP) \div 10>>,
                     (3 * FP) \div 2)
LavaTexture ==
    [width |-> 2, height |-> 2,
     image |-> <<<<ColorNew(200, 60, 0), ColorNew(255, 90, 0)>>,
                 <<ColorNew(120, 20, 0), ColorNew(255, 160, 0)>>>>]
Lava == [MaterialWithTexture(LavaTexture, 0,
            <<(9 * FP) \div 10, (3 * FP) \div 10, 0, (5 * FP) \div 10>>, FP)
         EXCEPT !.emission = ColorNew(255, 128, 0)]

\* a box around the z axis, by its z extent
Cube(slab, material) ==
    [min |-> Vec3(-5, -5, slab[1]), max |-> Vec3(5, 5, slab[2]),
     material |-> material]
Cubes ==
    {Cube(<<0, 2>>, m) : m \in {Mirror, Green, Glass, Rock}}
        \cup {Cube(<<8, 10>>, m) : m \in {Mirror, Rock, Lava}}
        \cup {Cube(<<-6, 2>>, m) : m \in {Lava, Green}}
        \cup {Cube(<<-6, -4>>, Rock)}

TraceLights ==
    {SceneLightNew(Vec3(0, 0, z), ColorNew(255, 200, 100), 2 * FP) : z \in {4, 12, -8}}

InitTrace ==
    /\ pc = "cast_ray_call"
    /\ \E objs \in [1..NumObjects -> Cubes], l \in TraceLights :
           args = [ray_origin |-> Vec3(0, 0, 5), ray_direction |-> Vec3(0, 0, -FP),
                   objects |-> objs, light |-> l, depth |-> 0,
                   sky_color |-> SKYBOX_COLOR]
    /\ ret = NoValue
    /\ MainIdle

CallCastRay ==
    /\ pc = "cast_ray_call"
    /\ ret' = cast_ray(args.ray_origin, args.ray_direction, args.objects,
                       args.light, args.depth, args.sky_color)
    /\ pc' = "cast_ray_done"
    /\ UNCHANGED <<args, mainVars, renderVars>>

SpecTrace == InitTrace /\ [][CallCastRay]_vars

(***************************************************************************)
(* Properties of render and main (Spec, SpecZoom)                          *)
(***************************************************************************)
InRender == pc \in {"render_parallel", "copy_color", "copy_point"}
\* a render call has returned and none has started since
RenderReturned == ~InRender /\ sink # <<>>
PointCalls == {j \in 1..Len(sink) : sink[j].op = "point"}
ExpectedBuffer == [i \in Pixels |-> to_hex(frame_color[i])]

\* C2: in one render call the sink receives exactly W * H point writes, one
\* for each coordinate and none twice, each immediately preceded by the
\* set_current_color call that carries the colour of pixel y * W + x.
C2_SinkWrites ==
    /\ \A j \in PointCalls :
        /\ sink[j].x \in 0..(FbWidth - 1)
        /\ sink[j].y \in 0..(FbHeight - 1)
        /\ j > 1
        /\ sink[j - 1].op = "set_current_color"
        /\ sink[j - 1].color = to_hex(frame_color[sink[j].y * FbWidth + sink[j].x])
    /\ \A j, k \in PointCalls :
        (sink[j].x = sink[k].x /\ sink[j].y = sink[k].y) => j = k
    /\ RenderReturned =>
        /\ Cardinality(PointCalls) = FbWidth * FbHeight
        /\ Len(sink) = 2 * FbWidth * FbHeight
        /\ \A x \in 0..(FbWidth - 1), y \in 0..(FbHeight - 1) :
              \E j \in PointCalls : sink[j].x = x /\ sink[j].y = y

\* a render call has returned and its last write was the last pixel's
C2_AllPixelsWritten ==
    /\ RenderReturned
    /\ sink[Len(sink)].op = "point"
    /\ sink[Len(sink)].x = FbWidth - 1
    /\ sink[Len(sink)].y = FbHeight - 1
    /\ FbHeight > 1

\* C3: in the parallel pass a step writes at most the slot of the one pixel
\* index whose worker ran and leaves the framebuffer alone; the serial copy
\* runs only once no worker is pending; and the buffers hold the pixels'
\* colours whatever the order in which the workers ran.
C3_WorkersDisjoint ==
    /\ [](pc = "render_parallel" =>
            /\ sink = <<>>
            /\ \A i \in Pixels \ pending : pixel_buffer[i] = ExpectedBuffer[i])
    /\ [](pc \in {"copy_color", "copy_point"} =>
            /\ pending = {}
            /\ pixel_buffer = ExpectedBuffer)
    /\ [](RenderReturned => framebuffer.buffer = ExpectedBuffer)
    /\ [][pc = "render_parallel" =>
            /\ framebuffer' = framebuffer
            /\ Cardinality(pending \ pending') <= 1
            /\ \A i \in Pixels :
                  pixel_buffer'[i] # pixel_buffer[i] => (i \in pending /\ i \notin pending')]_vars

\* the worker of the last pixel has run before the worker of the first
C3_OutOfOrder ==
    /\ pc = "render_parallel"
    /\ 0 \in pending
    /\ (FbWidth * FbHeight - 1) \notin pending
    /\ pixel_buffer[FbWidth * FbHeight - 1] # 0

\* C4: in every frame the key handlers and SceneLight::update have run
\* exactly once when render starts and when the frame ends, and during the
\* render call the light, the camera and the object list do not change.
C4_UpdatesBeforeRender ==
    /\ []((InRender \/ pc = "sleep") => (light_updates = 1 /\ key_passes = 1))
    /\ [][(InRender \/ pc = "render") =>
            (light' = light /\ camera' = camera /\ objects' = objects)]_vars

\* workers of the second frame are running, after the light and the camera
\* have both moved
C4_SecondFrameWorkers ==
    /\ pc = "render_parallel"
    /\ frame = 1
    /\ pending # {} /\ pending # Pixels
    /\ light.time > 0
    /\ camera # CameraNew

\* C5: when a texture fails to load the failing path is reported, and no
\* frame is rendered or presented.
C5_FailureReportsPath ==
    pc = "panicked" =>
        /\ \E j \in 1..Len(stderr) : \E k \in 1..Len(stderr[j]) :
              stderr[j][k] = TexturePaths[loading]
        /\ frame = 0
        /\ sink = <<>>
        /\ framebuffer = FramebufferNew

\* C6: in every rendered frame the eye is at least one zoom step away from
\* the target (and its coordinates are numbers).
C6_EyeKeepsDistance ==
    InRender => (~camera.nan /\ camera.dist >= 1)

(***************************************************************************)
(* Properties of cast_ray (SpecTrace)                                      *)
(***************************************************************************)
TraceDone == pc = "cast_ray_done"
CallIndices == IF TraceDone THEN 1..Len(ret.calls) ELSE {}
CallsAtDepth(d) == {j \in CallIndices : ret.calls[j].depth = d}
\* the recursive calls made by the invocations of depth d
ChildrenOfDepth(d) ==
    {<<j, k>> \in CallIndices \X (1..2) :
        ret.calls[j].depth = d /\ k <= Len(ret.calls[j].child_depths)}

\* C1: the primary call has depth 0, every recursive call is made with
\* depth + 1, no invocation has a depth above 4, and an invocation with
\* depth > 3 returns the sky colour without scanning or recursing.
C1_RecursionBounded ==
    TraceDone =>
        /\ ret.calls[1].depth = 0
        /\ Cardinality(CallsAtDepth(0)) = 1
        /\ \A j \in CallIndices :
            LET c == ret.calls[j]
            IN  /\ c.depth <= 4
                /\ \A k \in 1..Len(c.child_depths) : c.child_depths[k] = c.depth + 1
                /\ c.depth > 3 =>
                       /\ ~c.scanned
                       /\ c.child_depths = <<>>
                       /\ c.color = args.sky_color
                /\ Cardinality(CallsAtDepth(c.depth + 1))
                       = Cardinality(ChildrenOfDepth(c.depth))

\* two mirrors facing each other around the ray origin: depth 4 is reached
C1_MirrorCorridor ==
    /\ TraceDone
    /\ \A i \in 1..Len(args.objects) : args.objects[i].material = Mirror
    /\ \E j \in CallIndices : ret.calls[j].depth = 4
    /\ ret.color = args.sky_color

\* C7: the diffuse term of a non-textured hit is the material colour times
\* the diffuse coefficient, max(0, normal.light_dir) and the effective light
\* intensity, so a lit surface of non-black colour gets a non-black term.
C7_DiffuseUsesMaterialColor ==
    TraceDone =>
        \A j \in CallIndices :
            LET c == ret.calls[j]
                sh == c.shade
            IN  (c.shaded /\ ~sh.has_texture) =>
                    /\ sh.diffuse =
                          ColorMulF(ColorMulF(ColorMulF(sh.material_color,
                              sh.diffuse_coeff), sh.diffuse_intensity),
                              sh.light_intensity)
                    /\ (/\ sh.diffuse_coeff > 0
                        /\ sh.diffuse_intensity > 0
                        /\ sh.light_intensity > 0
                        /\ sh.material_color # ColorBlack)
                           => sh.diffuse # ColorBlack

\* C10: an invocation that scans keeps the intersection of smallest distance
\* among the objects that report a hit (the earliest object among equals),
\* and returns the sky colour without shading exactly when none reports one.
C10_NearestHit ==
    TraceDone =>
        \A j \in CallIndices :
            LET c == ret.calls[j]
                h == c.hits
                found == {i \in 1..Len(h) : h[i].is_intersecting}
            IN  c.scanned =>
                    /\ Len(h) = Len(args.objects)
                    /\ (c.selected = 0) <=> (found = {})
                    /\ c.shaded <=> (found # {})
                    /\ ~c.shaded => c.color = args.sky_color
                    /\ c.selected # 0 =>
                           /\ c.selected \in found
                           /\ \A i \in found :
                                 \/ h[c.selected].distance < h[i].distance
                                 \/ /\ h[c.selected].distance = h[i].distance
                                    /\ c.selected <= i

\* the nearer object is later in the list, and a tie goes to the earlier one
C10_LaterObjectNearer ==
    /\ TraceDone
    /\ \E j \in CallIndices :
          LET c == ret.calls[j]
          IN  /\ c.scanned /\ Len(c.hits) >= 2
              /\ c.hits[1].is_intersecting /\ c.hits[2].is_intersecting
              /\ c.hits[2].distance < c.hits[1].distance
              /\ c.selected = 2
    /\ \E j \in CallIndices :
          LET c == ret.calls[j]
          IN  /\ c.scanned /\ Len(c.hits) >= 2
              /\ c.hits[1].is_intersecting /\ c.hits[2].is_intersecting
              /\ c.hits[2].distance = c.hits[1].distance
              /\ c.selected = 1

(***************************************************************************)
(* Properties of refract (SpecRefract)                                     *)
(***************************************************************************)
\* C8: an entering ray (incident.normal < 0) uses the normal as given and
\* eta = 1 / refractive_index, an exiting ray (incident.normal > 0) the
\* flipped normal and eta = refractive_index, and k < 0 gives the mirror
\* reflection about the selected normal.
C8_RefractEnteringExiting ==
    pc = "refract_done" =>
        LET d == Dot(args.incident, args.normal)
            l == ret.locals
        IN  /\ d < 0 => (l.n_normal = args.normal /\ l.eta = FDiv(FP, args.eta_t))
            /\ d > 0 => (l.n_normal = VNeg(args.normal) /\ l.eta = args.eta_t)
            /\ l.k < 0 => ret.dir = reflect(args.incident, l.n_normal)

(***************************************************************************)
(* Properties of cast_shadow (SpecShadow)                                  *)
(***************************************************************************)
ShadowOccluders ==
    {i \in 1..Len(args.shadow_intersects) :
        /\ args.shadow_intersects[i].is_intersecting
        /\ args.shadow_intersects[i].distance < args.light_distance}

SkyComputed ==
    /\ light_updates = 1
    /\ InRender \/ pc \in {"render", "present", "sleep"}

\* C11: in every frame the height factor t = (light.position.y + 2) / 4 of
\* the sky blend lies in [0, 1], and each channel of the frame's sky colour
\* lies between the night and the day constant of that channel.
C11_SkyFactorNormalized ==
    SkyComputed =>
        /\ 0 <= height_factor(light) /\ height_factor(light) <= FP
        /\ \A c \in 1..3 :
              /\ NIGHT_SKY_COLOR[c] <= sky_color[c]
              /\ sky_color[c] <= SKYBOX_COLOR[c]

\* C12: after any sequence of SceneLight::update calls the phase
\* accumulator light.time lies in [0, DAY_DURATION].
C12_TimeWithinDay ==
    0 <= light.time /\ light.time <= DAY_DURATION

=============================================================================
